---- MODULE Spec2Model ----
(***************************************************************************)
(* Model of op-chain-ops/ether/migrate.go: the OVM_ETH balance migration   *)
(* (doMigration: scan workers, collector, coordinator) and the keyspace    *)
(* partitioner (PartitionKeyspace).                                        *)
(***************************************************************************)
EXTENDS Integers, Sequences, FiniteSets, TLC

(***************************************************************************)
(* Bounds of the model.                                                    *)
(***************************************************************************)
\* Number of scan workers.  The program spawns 64 (migrate.go:23); the model
\* runs the same loop with a small worker count.
checkJobs == 2

\* Width of a storage key in bits.  The program uses 256-bit keys.
KeyBits == 3

\* Legacy balance of an address that has one.
MaxBal == 1

\* Largest recorded legacy total supply.
MaxSupply == 2

\* PartitionKeyspace is exercised with i and count in -MaxArg..MaxArg.
MaxArg == 5

(***************************************************************************)
(* Program constants.                                                      *)
(***************************************************************************)
BalanceSlot == 1
AllowanceSlot == 2

RECURSIVE Pow2(_)
Pow2(n) == IF n = 0 THEN 1 ELSE 2 * Pow2(n - 1)

\* maxSlot is the maximum possible storage slot (all-ones key).
maxSlot == Pow2(KeyBits) - 1

sequencerEntrypointAddr == "seq"

\* Addresses of the modelled world.
UserAddr == {"a1", "a2"}
Addr == UserAddr \cup {sequencerEntrypointAddr}

\* Allowance pairs (from, to) of the modelled world.
AllowPairs == {<<"a1", "a2">>}

Workers == 0 .. (checkJobs - 1)

(***************************************************************************)
(* Storage keys of the legacy contract.                                    *)
(***************************************************************************)
NoSlot == [kind |-> "none", a |-> "-", b |-> "-"]

CalcOVMETHStorageKey(addr) == [kind |-> "bal", a |-> addr, b |-> "-"]

CalcAllowanceStorageKey(from, to) == [kind |-> "allow", a |-> from, b |-> to]

getOVMETHTotalSupplySlot == [kind |-> "meta", a |-> "2", b |-> "-"]

NameSlot == [kind |-> "meta", a |-> "3", b |-> "-"]

ignoredSlots == {getOVMETHTotalSupplySlot, NameSlot}

\* Every storage key of the modelled world, in a fixed order.
SlotList ==
    << getOVMETHTotalSupplySlot,
       CalcOVMETHStorageKey("a1"),
       CalcOVMETHStorageKey("a2"),
       CalcOVMETHStorageKey(sequencerEntrypointAddr),
       CalcAllowanceStorageKey("a1", "a2"),
       NameSlot >>

Slots == {SlotList[n] : n \in 1 .. Len(SlotList)}

SlotIndex == [s \in Slots |-> CHOOSE n \in 1 .. Len(SlotList) : SlotList[n] = s]

getOVMETHTotalSupply(db) == db.storage[getOVMETHTotalSupplySlot]

(***************************************************************************)
(* Errors.                                                                 *)
(***************************************************************************)
ErrNil == [msg |-> "nil", slot |-> NoSlot, addr |-> "-", delta |-> 0]

Pending == [msg |-> "pending", slot |-> NoSlot, addr |-> "-", delta |-> 0]

ErrUnknownSlot(key) ==
    [msg |-> "unknown storage slot", slot |-> key, addr |-> "-", delta |-> 0]

ErrNonZeroBalance(addr) ==
    [msg |-> "non-zero balance", slot |-> NoSlot, addr |-> addr, delta |-> 0]

ErrSupplyMismatch(delta) ==
    [msg |-> "supply mismatch", slot |-> NoSlot, addr |-> "-", delta |-> delta]

NoCand == [balance |-> 0, legacySlot |-> NoSlot, address |-> "-"]

(***************************************************************************)
(* PartitionKeyspace(i, count).                                            *)
(***************************************************************************)
PartSize(count) == maxSlot \div count

\* Variant: the last partition ends at count * partSize, dropping the remainder.
PartitionKeyspaceNoRemainder(i, count) ==
    IF i < 0 \/ count < 0 \/ i > count - 1
    THEN [kind |-> "panic", start |-> 0, end |-> 0]
    ELSE IF count = 0
    THEN [kind |-> "divide by zero", start |-> 0, end |-> 0]
    ELSE [kind  |-> "ok",
          start |-> i * PartSize(count),
          end   |-> (i + 1) * PartSize(count)]

\* Variant: the index check is off by one (i > count instead of i > count - 1).
PartitionKeyspaceLooseIndex(i, count) ==
    IF i < 0 \/ count < 0 \/ i > count
    THEN [kind |-> "panic", start |-> 0, end |-> 0]
    ELSE IF count = 0
    THEN [kind |-> "divide by zero", start |-> 0, end |-> 0]
    ELSE [kind  |-> "ok",
          start |-> i * PartSize(count),
          end   |-> IF i < count - 1 THEN (i + 1) * PartSize(count) ELSE maxSlot]

\* Variant: a non-last partition ends one key past the next one's start.
PartitionKeyspaceWideEnd(i, count) ==
    IF i < 0 \/ count < 0 \/ i > count - 1
    THEN [kind |-> "panic", start |-> 0, end |-> 0]
    ELSE IF count = 0
    THEN [kind |-> "divide by zero", start |-> 0, end |-> 0]
    ELSE [kind  |-> "ok",
          start |-> i * PartSize(count),
          end   |-> IF i < count - 1 THEN (i + 1) * PartSize(count) + 1 ELSE maxSlot]

PartitionKeyspace(i, count) ==
    IF i < 0 \/ count < 0
    THEN [kind |-> "panic", start |-> 0, end |-> 0]
    ELSE IF i > count - 1
    THEN [kind |-> "panic", start |-> 0, end |-> 0]
    ELSE IF count = 0
    THEN [kind |-> "divide by zero", start |-> 0, end |-> 0]
    ELSE [kind  |-> "ok",
          start |-> i * PartSize(count),
          end   |-> IF i < count - 1 THEN (i + 1) * PartSize(count) ELSE maxSlot]

NoCall == [kind |-> "none", start |-> 0, end |-> 0]

(***************************************************************************)
(* State.                                                                  *)
(***************************************************************************)
VARIABLES
    noCheck,        \* relaxed mode
    expDiff,        \* expected supply delta
    addresses,      \* supplied addresses
    allowances,     \* supplied allowance pairs
    salt,           \* selects the secure hash of the storage trie
    root,           \* committed state every dbFactory() handle reads
    mutableDB,      \* target store
    wpc,            \* worker -> "idle" | "iter" | "send" | "done"
    itPos,          \* worker -> position of its trie iterator
    pending,        \* worker -> candidate it is sending on outCh
    wg,             \* WaitGroup counter
    errCh,          \* buffered error channel
    cancelCh,       \* [closed, closes]
    cancelOnce,     \* sync.Once: already done?
    cpc,            \* collector: "idle" | "select" | "closing" | "done"
    seenAccounts,
    totalFound,
    count,
    lastErr,
    mpc,            \* coordinator: "init" | "wait" | "cancel" | "join" | "verify" | "done"
    result,         \* what doMigration returned
    account,        \* candidate the collector received and is applying
    crashed,        \* log.Crit ended the process
    sentErrs,       \* history: errors workers sent on errCh
    recvErrs,       \* history: errors the collector received, in order
    lastErrWrites,  \* history: number of assignments to lastErr
    cancelAttempts, \* history: number of cancelOnce.Do calls
    scanLog,        \* history: worker -> the entries its loop body ran on, with outcomes
    pI, pCount, pRes  \* a call of PartitionKeyspace and its outcome

inputs == <<noCheck, expDiff, addresses, allowances, salt, root>>
workerVars == <<wpc, itPos, pending, wg>>
collectorVars == <<seenAccounts, totalFound, count, account>>
cancelVars == <<cancelCh, cancelOnce, lastErr, lastErrWrites, cancelAttempts>>
partVars == <<pI, pCount, pRes>>

vars == <<noCheck, expDiff, addresses, allowances, salt, root, mutableDB,
          wpc, itPos, pending, wg, errCh, cancelCh, cancelOnce, cpc,
          seenAccounts, totalFound, count, lastErr, mpc, result, account,
          crashed, sentErrs, recvErrs, lastErrWrites, cancelAttempts, scanLog,
          pI, pCount, pRes>>

(***************************************************************************)
(* The Expectation Index built at the start of doMigration.                *)
(***************************************************************************)
slotsAddrs ==
    [k \in {CalcOVMETHStorageKey(a) : a \in addresses \cup {sequencerEntrypointAddr}}
           \cup {CalcAllowanceStorageKey(p[1], p[2]) : p \in allowances}
       |-> k.a]

slotsInp ==
    [k \in DOMAIN slotsAddrs |-> IF k.kind = "bal" THEN BalanceSlot ELSE AllowanceSlot]

(***************************************************************************)
(* The storage trie of the legacy contract, ordered by secure-hashed key.  *)
(***************************************************************************)
\* Secure hash of a storage key (it.Key of the entry whose preimage is s): an
\* injection of the keys into the key space.  The family indexed by salt spreads
\* the keys over the partitions and puts one of them on a partition boundary.
HashKey(s) ==
    ((SlotIndex[s] - 1) * ((PartSize(checkJobs) + 1) \div 3) + salt) % (maxSlot + 1)

\* The trie holds the non-empty slots only.
TrieSlots == {s \in Slots : root.storage[s] # 0}

\* it.Next(): the first entry at or after the iterator position, NoSlot at the end.
ItNext(pos) ==
    LET rest == {s \in TrieSlots : HashKey(s) >= pos}
    IN  IF rest = {} THEN NoSlot
        ELSE CHOOSE s \in rest : \A t \in rest : HashKey(s) <= HashKey(t)

(***************************************************************************)
(* Initial states: the inputs of doMigration and the committed legacy      *)
(* state (as makeLegacyETH builds it), before anything has run.            *)
(***************************************************************************)
\* The committed legacy state: the recorded total supply, the metadata slot,
\* the balance slots, the allowance slot (value 1 when set) and the state
\* balances (address a1, the allowance owner, may already hold a balance).
LegacyState(supply, bal, seqBal, allow, prior) ==
    [balance |-> [a \in Addr |-> IF a = "a1" THEN prior ELSE 0],
     storage |-> [s \in Slots |->
                    IF s = getOVMETHTotalSupplySlot THEN supply
                    ELSE IF s = NameSlot THEN 1
                    ELSE IF s.kind = "bal"
                    THEN (IF s.a \in UserAddr THEN bal[s.a] ELSE seqBal)
                    ELSE allow]]

InitRun ==
    /\ mutableDB = root
    /\ wpc = [w \in Workers |-> "idle"]
    /\ itPos = [w \in Workers |-> 0]
    /\ pending = [w \in Workers |-> NoCand]
    /\ wg = 0
    /\ errCh = << >>
    /\ cancelCh = [closed |-> FALSE, closes |-> 0]
    /\ cancelOnce = FALSE
    /\ cpc = "idle"
    /\ seenAccounts = {}
    /\ totalFound = 0
    /\ count = 0
    /\ lastErr = ErrNil
    /\ mpc = "init"
    /\ result = Pending
    /\ account = NoCand
    /\ crashed = FALSE
    /\ sentErrs = {}
    /\ recvErrs = << >>
    /\ lastErrWrites = 0
    /\ cancelAttempts = 0
    /\ scanLog = [w \in Workers |-> << >>]

Init ==
    /\ noCheck \in BOOLEAN
    /\ expDiff \in {0, 1}
    /\ addresses \in SUBSET UserAddr
    /\ allowances \in SUBSET AllowPairs
    /\ salt \in {0, 1}
    /\ \E supply \in 0 .. MaxSupply, bal \in [UserAddr -> {0, MaxBal}], seqBal \in {0, 1},
          allow \in {0, 1}, prior \in {0, MaxBal + 1} :
          root = LegacyState(supply, bal, seqBal, allow, prior)
    /\ InitRun
    /\ pI = 0 /\ pCount = 0 /\ pRes = NoCall

(***************************************************************************)
(* Scan worker: one iteration of the loop over its partition.              *)
(***************************************************************************)
\* Variant: the workers read through the target store's handle.
dbFactoryShared == mutableDB

\* dbFactory(): a fresh handle on the committed state; it sees nothing of the
\* uncommitted writes made through mutableDB.
dbFactory == root

\* Variant: the zero-balance check never stops the worker.
ClassifyNoIntegrityStop(s) ==
    IF dbFactory.storage[s] = 0 \/ s \in ignoredSlots
    THEN [act |-> "continue", err |-> ErrNil, cand |-> NoCand]
    ELSE IF s \notin DOMAIN slotsInp
    THEN IF noCheck
         THEN [act |-> "crit", err |-> ErrNil, cand |-> NoCand]
         ELSE [act |-> "error", err |-> ErrUnknownSlot(s), cand |-> NoCand]
    ELSE IF slotsInp[s] = BalanceSlot
    THEN [act  |-> "emit", err |-> ErrNil,
          cand |-> [balance |-> dbFactory.storage[s], legacySlot |-> s,
                    address |-> slotsAddrs[s]]]
    ELSE [act |-> "continue", err |-> ErrNil, cand |-> NoCand]

\* Variant: no switch on the slot kind, every index entry yields a candidate.
ClassifyEmitsEveryKind(s) ==
    IF dbFactory.storage[s] = 0 \/ s \in ignoredSlots
    THEN [act |-> "continue", err |-> ErrNil, cand |-> NoCand]
    ELSE IF s \notin DOMAIN slotsInp
    THEN IF noCheck
         THEN [act |-> "crit", err |-> ErrNil, cand |-> NoCand]
         ELSE [act |-> "error", err |-> ErrUnknownSlot(s), cand |-> NoCand]
    ELSE IF dbFactory.balance[slotsAddrs[s]] # 0 /\ ~noCheck
    THEN [act |-> "error", err |-> ErrNonZeroBalance(slotsAddrs[s]), cand |-> NoCand]
    ELSE [act  |-> "emit", err |-> ErrNil,
          cand |-> [balance |-> dbFactory.storage[s], legacySlot |-> s,
                    address |-> slotsAddrs[s]]]

\* What the loop body does with entry s (read through the worker's own handle).
Classify(s) ==
    IF dbFactory.storage[s] = 0 \/ s \in ignoredSlots
    THEN [act |-> "continue", err |-> ErrNil, cand |-> NoCand]
    ELSE IF s \notin DOMAIN slotsInp
    THEN IF noCheck
         THEN \* logs, falls through to the slotsAddrs lookup, which is fatal
              [act |-> "crit", err |-> ErrNil, cand |-> NoCand]
         ELSE [act |-> "error", err |-> ErrUnknownSlot(s), cand |-> NoCand]
    ELSE IF dbFactory.balance[slotsAddrs[s]] # 0 /\ ~noCheck
    THEN [act |-> "error", err |-> ErrNonZeroBalance(slotsAddrs[s]), cand |-> NoCand]
    ELSE IF slotsInp[s] = BalanceSlot
    THEN [act  |-> "emit", err |-> ErrNil,
          cand |-> [balance |-> dbFactory.storage[s], legacySlot |-> s,
                    address |-> slotsAddrs[s]]]
    ELSE [act |-> "continue", err |-> ErrNil, cand |-> NoCand]

\* Variant: the worker goes on with the next entry after sending an error.
WorkerIterNoReturnOnError(w) ==
    /\ wpc[w] = "iter"
    /\ ~crashed
    /\ \E s \in {ItNext(itPos[w])} :
       \E stop \in {s = NoSlot \/ cancelCh.closed
                        \/ HashKey(s) > PartitionKeyspace(w, checkJobs).end} :
       \E o \in {IF stop THEN [act |-> "return", err |-> ErrNil, cand |-> NoCand]
                          ELSE Classify(s)} :
       \E exit \in {o.act = "return"} :
           /\ wpc' = [wpc EXCEPT ![w] = IF exit THEN "done"
                                        ELSE IF o.act = "emit" THEN "send"
                                        ELSE "iter"]
           /\ itPos' = IF stop THEN itPos ELSE [itPos EXCEPT ![w] = HashKey(s) + 1]
           /\ pending' = [pending EXCEPT ![w] = o.cand]
           /\ wg' = IF exit THEN wg - 1 ELSE wg
           /\ errCh' = IF o.act = "error" THEN Append(errCh, o.err) ELSE errCh
           /\ sentErrs' = IF o.act = "error" THEN sentErrs \cup {o.err} ELSE sentErrs
           /\ crashed' = (o.act = "crit")
           /\ scanLog' = IF stop THEN scanLog
                         ELSE [scanLog EXCEPT ![w] = Append(@, [slot |-> s, act |-> o.act,
                                                                err |-> o.err, cand |-> o.cand])]
    /\ UNCHANGED <<inputs, mutableDB, cancelVars, cpc, collectorVars, mpc, result,
                   recvErrs, partVars>>

\* it.Next(), the cancellation check, the end-of-partition check and the body,
\* up to the next channel operation.
WorkerIter(w) ==
    /\ wpc[w] = "iter"
    /\ ~crashed
    /\ \E s \in {ItNext(itPos[w])} :
       \E stop \in {s = NoSlot \/ cancelCh.closed
                        \/ HashKey(s) > PartitionKeyspace(w, checkJobs).end} :
       \E o \in {IF stop THEN [act |-> "return", err |-> ErrNil, cand |-> NoCand]
                          ELSE Classify(s)} :
       \E exit \in {o.act \in {"return", "error"}} :
           /\ wpc' = [wpc EXCEPT ![w] = IF exit THEN "done"
                                        ELSE IF o.act = "emit" THEN "send"
                                        ELSE "iter"]
           /\ itPos' = IF stop THEN itPos ELSE [itPos EXCEPT ![w] = HashKey(s) + 1]
           /\ pending' = [pending EXCEPT ![w] = o.cand]
           /\ wg' = IF exit THEN wg - 1 ELSE wg
           /\ errCh' = IF o.act = "error" THEN Append(errCh, o.err) ELSE errCh
           /\ sentErrs' = IF o.act = "error" THEN sentErrs \cup {o.err} ELSE sentErrs
           /\ crashed' = (o.act = "crit")
           /\ scanLog' = IF stop THEN scanLog
                         ELSE [scanLog EXCEPT ![w] = Append(@, [slot |-> s, act |-> o.act,
                                                                err |-> o.err, cand |-> o.cand])]
    /\ UNCHANGED <<inputs, mutableDB, cancelVars, cpc, collectorVars, mpc, result,
                   recvErrs, partVars>>

(***************************************************************************)
(* Collector.                                                              *)
(***************************************************************************)
\* Variant: a bare call instead of a sync.Once.
OnceFiresAlways(done) == TRUE

\* cancelOnce.Do(f) runs f unless the Once has already been used.
OnceFires(done) == ~done

\* close(cancelCh)
Close(ch) == [closed |-> TRUE, closes |-> ch.closes + 1]

\* Variant: no duplicate filter.
IsDuplicateNever(seen, a) == FALSE

\* seenAccounts[account.address]
IsDuplicate(seen, a) == a \in seen

\* case account := <-outCh: worker w's blocked send meets the collector's select.
CollectorRecv(w) ==
    /\ wpc[w] = "send"
    /\ cpc = "select"
    /\ ~crashed
    /\ account' = pending[w]
    /\ cpc' = "apply"
    /\ wpc' = [wpc EXCEPT ![w] = "iter"]
    /\ pending' = [pending EXCEPT ![w] = NoCand]
    /\ UNCHANGED <<inputs, mutableDB, itPos, wg, errCh, cancelVars, seenAccounts,
                   totalFound, count, mpc, result, crashed, sentErrs, scanLog, recvErrs,
                   partVars>>

\* Variant: the running total is assigned instead of accumulated.
CollectorApplyAssignsTotal ==
    /\ cpc = "apply"
    /\ ~crashed
    /\ IF IsDuplicate(seenAccounts, account.address)
       THEN UNCHANGED <<totalFound, mutableDB, count, seenAccounts>>
       ELSE /\ totalFound' = account.balance
            /\ mutableDB' =
                   [balance |-> [mutableDB.balance EXCEPT ![account.address] = account.balance],
                    storage |-> [mutableDB.storage EXCEPT ![account.legacySlot] = 0]]
            /\ count' = count + 1
            /\ seenAccounts' = seenAccounts \cup {account.address}
    /\ account' = NoCand
    /\ cpc' = "select"
    /\ UNCHANGED <<inputs, workerVars, errCh, cancelVars, mpc, result, crashed,
                   sentErrs, scanLog, recvErrs, partVars>>

\* The body of the outCh case: dedup, accumulate, write, clear.
CollectorApply ==
    /\ cpc = "apply"
    /\ ~crashed
    /\ IF IsDuplicate(seenAccounts, account.address)
       THEN UNCHANGED <<totalFound, mutableDB, count, seenAccounts>>
       ELSE /\ totalFound' = totalFound + account.balance
            /\ mutableDB' =
                   [balance |-> [mutableDB.balance EXCEPT ![account.address] = account.balance],
                    storage |-> [mutableDB.storage EXCEPT ![account.legacySlot] = 0]]
            /\ count' = count + 1
            /\ seenAccounts' = seenAccounts \cup {account.address}
    /\ account' = NoCand
    /\ cpc' = "select"
    /\ UNCHANGED <<inputs, workerVars, errCh, cancelVars, mpc, result, crashed,
                   sentErrs, scanLog, recvErrs, partVars>>

\* case err := <-errCh
CollectorErr ==
    /\ cpc = "select"
    /\ ~crashed
    /\ errCh # << >>
    /\ errCh' = Tail(errCh)
    /\ recvErrs' = Append(recvErrs, Head(errCh))
    /\ cancelAttempts' = cancelAttempts + 1
    /\ IF OnceFires(cancelOnce)
       THEN /\ lastErr' = Head(errCh)
            /\ lastErrWrites' = lastErrWrites + 1
            /\ cancelCh' = Close(cancelCh)
            /\ cancelOnce' = TRUE
       ELSE UNCHANGED <<lastErr, lastErrWrites, cancelCh, cancelOnce>>
    /\ UNCHANGED <<inputs, mutableDB, workerVars, cpc, collectorVars, mpc, result,
                   crashed, sentErrs, scanLog, partVars>>

\* case <-cancelCh: return; the deferred send on collectorCloseCh follows.
CollectorCancel ==
    /\ cpc = "select"
    /\ ~crashed
    /\ cancelCh.closed
    /\ cpc' = "closing"
    /\ UNCHANGED <<inputs, mutableDB, workerVars, errCh, cancelVars, collectorVars,
                   mpc, result, crashed, sentErrs, scanLog, recvErrs, partVars>>

(***************************************************************************)
(* Coordinator (the body of doMigration).                                  *)
(***************************************************************************)
\* Build the index, spawn the workers on their partitions, start the collector.
Start ==
    /\ mpc = "init"
    /\ wpc' = [w \in Workers |-> "iter"]
    /\ itPos' = [w \in Workers |-> PartitionKeyspace(w, checkJobs).start]
    /\ wg' = checkJobs
    /\ cpc' = "select"
    /\ mpc' = "wait"
    /\ UNCHANGED <<inputs, mutableDB, pending, errCh, cancelVars, collectorVars,
                   result, crashed, sentErrs, scanLog, recvErrs, partVars>>

\* Variant: the coordinator does not wait for the workers.
WaitSkipsBarrier ==
    /\ mpc = "wait"
    /\ ~crashed
    /\ mpc' = "cancel"
    /\ UNCHANGED <<inputs, mutableDB, workerVars, errCh, cancelVars, cpc,
                   collectorVars, result, crashed, sentErrs, scanLog, recvErrs, partVars>>

\* wg.Wait()
Wait ==
    /\ mpc = "wait"
    /\ ~crashed
    /\ wg = 0
    /\ mpc' = "cancel"
    /\ UNCHANGED <<inputs, mutableDB, workerVars, errCh, cancelVars, cpc,
                   collectorVars, result, crashed, sentErrs, scanLog, recvErrs, partVars>>

\* cancelOnce.Do(func() { close(cancelCh) })
Cancel ==
    /\ mpc = "cancel"
    /\ ~crashed
    /\ cancelAttempts' = cancelAttempts + 1
    /\ IF OnceFires(cancelOnce)
       THEN /\ cancelCh' = Close(cancelCh)
            /\ cancelOnce' = TRUE
       ELSE UNCHANGED <<cancelCh, cancelOnce>>
    /\ mpc' = "join"
    /\ UNCHANGED <<inputs, mutableDB, workerVars, errCh, lastErr, lastErrWrites, cpc,
                   collectorVars, result, crashed, sentErrs, scanLog, recvErrs, partVars>>

\* Variant: the coordinator does not wait for the collector's completion signal.
JoinSkipsCollector ==
    /\ mpc = "join"
    /\ ~crashed
    /\ mpc' = "verify"
    /\ UNCHANGED <<inputs, mutableDB, workerVars, errCh, cancelVars, cpc, collectorVars,
                   result, crashed, sentErrs, scanLog, recvErrs, partVars>>

\* <-collectorCloseCh meets the collector's deferred send.
Join ==
    /\ mpc = "join"
    /\ cpc = "closing"
    /\ ~crashed
    /\ mpc' = "verify"
    /\ cpc' = "done"
    /\ UNCHANGED <<inputs, mutableDB, workerVars, errCh, cancelVars, collectorVars,
                   result, crashed, sentErrs, scanLog, recvErrs, partVars>>

\* Variant: a surplus over the expected delta is accepted.
SupplyMatchesAtLeast(delta, exp) == delta >= exp

\* delta.Cmp(expDiff) == 0
SupplyMatches(delta, exp) == delta = exp

\* Variant: a supply mismatch is fatal in relaxed mode too.
MismatchIsFatalAlways(relaxed) == TRUE

\* if !noCheck { return fmt.Errorf("supply mismatch: ...") }
MismatchIsFatal(relaxed) == ~relaxed

\* Variant: the total supply is reset before the error and supply checks.
VerifyResetsFirst ==
    /\ mpc = "verify"
    /\ ~crashed
    /\ LET totalSupply == getOVMETHTotalSupply(dbFactory)
           delta == totalSupply - totalFound
       IN  /\ mutableDB' = [mutableDB EXCEPT !.storage[getOVMETHTotalSupplySlot] = 0]
           /\ result' = IF lastErr # ErrNil THEN lastErr
                         ELSE IF ~SupplyMatches(delta, expDiff) /\ MismatchIsFatal(noCheck)
                         THEN ErrSupplyMismatch(delta)
                         ELSE ErrNil
    /\ mpc' = "done"
    /\ UNCHANGED <<inputs, workerVars, errCh, cancelVars, cpc, collectorVars, crashed,
                   sentErrs, scanLog, recvErrs, partVars>>

\* Return the retained error, or verify the supply delta and reset the total supply.
Verify ==
    /\ mpc = "verify"
    /\ ~crashed
    /\ LET totalSupply == getOVMETHTotalSupply(dbFactory)
           delta == totalSupply - totalFound
       IN  IF lastErr # ErrNil
           THEN /\ result' = lastErr
                /\ UNCHANGED mutableDB
           ELSE IF ~SupplyMatches(delta, expDiff) /\ MismatchIsFatal(noCheck)
           THEN /\ result' = ErrSupplyMismatch(delta)
                /\ UNCHANGED mutableDB
           ELSE /\ result' = ErrNil
                /\ mutableDB' = [mutableDB EXCEPT !.storage[getOVMETHTotalSupplySlot] = 0]
    /\ mpc' = "done"
    /\ UNCHANGED <<inputs, workerVars, errCh, cancelVars, cpc, collectorVars, crashed,
                   sentErrs, scanLog, recvErrs, partVars>>

Next ==
    \/ Start
    \/ \E w \in Workers : WorkerIter(w)
    \/ \E w \in Workers : CollectorRecv(w)
    \/ CollectorApply
    \/ CollectorErr
    \/ CollectorCancel
    \/ Wait
    \/ Cancel
    \/ Join
    \/ Verify

Spec == Init /\ [][Next]_vars

(***************************************************************************)
(* PartitionKeyspace on its own: called with arbitrary arguments.          *)
(***************************************************************************)
InitP ==
    /\ pI \in -MaxArg .. MaxArg
    /\ pCount \in -MaxArg .. MaxArg
    /\ pRes = NoCall
    /\ noCheck = FALSE
    /\ expDiff = 0
    /\ addresses = {}
    /\ allowances = {}
    /\ salt = 0
    /\ root = LegacyState(0, [a \in UserAddr |-> 0], 0, 0, 0)
    /\ InitRun

CallPartition ==
    /\ pRes = NoCall
    /\ pRes' = PartitionKeyspace(pI, pCount)
    /\ UNCHANGED <<inputs, mutableDB, workerVars, errCh, cancelVars, cpc, collectorVars,
                   mpc, result, crashed, sentErrs, scanLog, recvErrs, pI, pCount>>

NextP == CallPartition

SpecP == InitP /\ [][NextP]_vars

(***************************************************************************)
(* Properties of doMigration (checked under Spec).                         *)
(***************************************************************************)
Returned == mpc = "done"

\* Legacy balance recorded for address a in the committed state.
LegacyBalance(a) == root.storage[CalcOVMETHStorageKey(a)]

RECURSIVE SumLegacy(_)
SumLegacy(S) ==
    IF S = {} THEN 0
    ELSE LET a == CHOOSE x \in S : TRUE IN LegacyBalance(a) + SumLegacy(S \ {a})

\* Every non-empty, non-ignored legacy entry corresponds to a supplied address
\* or a supplied allowance pair.
EntriesSupplied ==
    \A s \in TrieSlots \ ignoredSlots :
        \/ s.kind = "bal" /\ s.a \in addresses
        \/ s.kind = "allow" /\ <<s.a, s.b>> \in allowances

\* Some non-empty, non-ignored legacy entry is in neither expectation map.
HasUnknownEntry ==
    \E s \in TrieSlots \ ignoredSlots : s \notin DOMAIN slotsInp

\* C1: in strict mode, when every non-empty, non-ignored legacy entry is
\* supplied, no supplied address holds a prior balance and the recorded supply
\* minus the legacy balances is the expected delta, doMigration returns
\* success, every supplied address ends with its legacy balance and the
\* total-supply record is zero.
ValidRunMigratesAll ==
    ( /\ Returned
      /\ ~noCheck
      /\ EntriesSupplied
      /\ \A a \in addresses : root.balance[a] = 0
      /\ getOVMETHTotalSupply(root) - SumLegacy(Addr) = expDiff )
    => /\ result = ErrNil
       /\ \A a \in addresses : mutableDB.balance[a] = LegacyBalance(a)
       /\ getOVMETHTotalSupply(mutableDB) = 0

\* C2: in strict mode, when the legacy store holds an unknown entry, the
\* fatal error a worker sent is what doMigration returns; it is never dropped.
WorkerErrorReturned ==
    (Returned /\ ~noCheck /\ HasUnknownEntry) => result \in sentErrs

\* C3: no run gets stuck: until doMigration has returned, some worker,
\* collector or coordinator step can be taken.
NoStepBlocksForever ==
    Returned \/ crashed \/ ENABLED Next

\* C4: in strict mode, when no worker raised a fatal error, doMigration
\* returns success iff recorded supply - migrated total = expected delta, and
\* the supply mismatch error otherwise; the migrated total is the sum of the
\* balances the collector applied.
ConservationDecidesResult ==
    (Returned /\ ~noCheck /\ sentErrs = {}) =>
        /\ totalFound = SumLegacy(seenAccounts)
        /\ (result = ErrNil) <=> (getOVMETHTotalSupply(root) - totalFound = expDiff)
        /\ (getOVMETHTotalSupply(root) - totalFound # expDiff) =>
               result = ErrSupplyMismatch(getOVMETHTotalSupply(root) - totalFound)

\* A strict run has succeeded with a non-zero expected delta and a non-zero
\* migrated total.
ConservationSucceededWithDelta ==
    /\ Returned /\ ~noCheck /\ sentErrs = {}
    /\ result = ErrNil /\ expDiff = 1 /\ totalFound > 0

\* C5: in relaxed mode an unknown entry is logged and skipped: the worker does
\* not abort the run.
RelaxedUnknownSkipped ==
    (noCheck /\ HasUnknownEntry) => ~crashed

FirstErrorWins ==
    /\ lastErrWrites <= 1
    /\ (Returned /\ recvErrs # << >>) => result = Head(recvErrs)

\* C10: the cancel channel is closed at most once, it is closed exactly once
\* in every run that gets past the coordinator's attempt, every attempt after
\* the first changes nothing, and once closed it stays closed.
CancelSetExactlyOnce ==
    /\ [](/\ cancelCh.closes <= 1
          /\ cancelCh.closed <=> (cancelCh.closes = 1)
          /\ cancelOnce <=> cancelCh.closed
          /\ cancelCh.closed <=> (cancelAttempts >= 1)
          /\ mpc \in {"join", "verify", "done"} => cancelCh.closes = 1)
    /\ [][cancelCh.closed => cancelCh' = cancelCh]_vars

\* doMigration has returned after the collector closed the channel on an error
\* and the coordinator's later attempt was a no-op.
CancelAttemptedTwice ==
    Returned /\ cancelAttempts >= 2 /\ lastErrWrites = 1 /\ cancelCh.closes = 1

(***************************************************************************)
(* Properties of PartitionKeyspace (checked under SpecP).                  *)
(***************************************************************************)
InRange(k, r) == r.start <= k /\ k <= r.end

\* C7: for every count >= 1 the ranges PartitionKeyspace(i, count), i in
\* [0, count), are contiguous and cover the key space: partition 0 starts at
\* the all-zero key, the last one ends at maxSlot, start <= end, the end of a
\* non-last partition is the start of the next and equals
\* (i + 1) * floor(maxSlot / count), every key lies in some range and two
\* ranges share at most one key.
PartitionsContiguousAndCovering ==
    pRes.kind = "ok" =>
        /\ pCount >= 1
        /\ pRes.start <= pRes.end
        /\ (pI = 0 => pRes.start = 0)
        /\ (pI = pCount - 1 => pRes.end = maxSlot)
        /\ (pI < pCount - 1 =>
               /\ pRes.end = (pI + 1) * (maxSlot \div pCount)
               /\ pRes.end = PartitionKeyspace(pI + 1, pCount).start)
        /\ \A k \in 0 .. maxSlot :
               \E i \in 0 .. pCount - 1 : InRange(k, PartitionKeyspace(i, pCount))
        /\ \A j \in 0 .. pCount - 1 :
               j # pI => Cardinality({k \in 0 .. maxSlot :
                                        /\ InRange(k, pRes)
                                        /\ InRange(k, PartitionKeyspace(j, pCount))}) <= 1

\* A middle partition of a split into three or more has been computed.
PartitionMiddleComputed ==
    pRes.kind = "ok" /\ pCount >= 3 /\ pI > 0 /\ pI < pCount - 1

\* C8: PartitionKeyspace(i, count) panics exactly when i < 0, count < 0 or
\* i >= count (so for every call with count = 0, and the division is never
\* reached with a zero count); for all other arguments it returns a range.
PartitionFaultsOnInvalidArgs ==
    pRes # NoCall =>
        /\ pRes.kind # "divide by zero"
        /\ (pRes.kind = "panic") <=> (pI < 0 \/ pCount < 0 \/ pI >= pCount)
        /\ (pRes.kind = "ok") <=> ~(pI < 0 \/ pCount < 0 \/ pI >= pCount)

\* PartitionKeyspace(0, 0) has been called and has panicked.
PartitionZeroCountPanicked ==
    pRes.kind = "panic" /\ pCount = 0 /\ pI = 0

(***************************************************************************)
(* Further properties of doMigration (checked under Spec).                 *)
(***************************************************************************)
\* C11: after a successful run every legacy balance entry and every legacy
\* allowance entry that was non-empty before the run is zero in the target
\* store, and so is the total-supply record.
LegacyEntriesZeroedAfterSuccess ==
    (Returned /\ result = ErrNil) =>
        /\ \A s \in TrieSlots :
               s.kind \in {"bal", "allow"} => mutableDB.storage[s] = 0
        /\ getOVMETHTotalSupply(mutableDB) = 0

\* C12: in relaxed mode, when the scan raised no fatal error and the recorded
\* supply minus the migrated total differs from the expected delta,
\* doMigration still returns success and the total-supply record is zero.
RelaxedMismatchSucceeds ==
    ( /\ Returned
      /\ noCheck
      /\ sentErrs = {}
      /\ getOVMETHTotalSupply(root) - totalFound # expDiff )
    => /\ result = ErrNil
       /\ getOVMETHTotalSupply(mutableDB) = 0

\* A relaxed run has returned with a supply mismatch after migrating a balance,
\* and the recorded total supply it reset was not zero.
RelaxedMismatchReturned ==
    /\ Returned /\ noCheck
    /\ getOVMETHTotalSupply(root) - totalFound # expDiff
    /\ getOVMETHTotalSupply(root) > 0
    /\ totalFound > 0

\* The candidates the workers have sent, or are sending, on outCh.
Emitted ==
    UNION {{scanLog[w][i].cand : i \in {j \in DOMAIN scanLog[w] : scanLog[w][j].act = "emit"}}
             : w \in Workers}

\* C13: on a run in which no worker raised a fatal error, when the collector
\* stops no candidate is pending: no worker is still sending, the collector
\* holds no unapplied candidate, and every emitted candidate has been applied
\* (balance written, legacy slot cleared, total updated).
NoCandidateLost ==
    (sentErrs = {} /\ cpc \in {"closing", "done"}) =>
        /\ \A w \in Workers : wpc[w] = "done" /\ pending[w] = NoCand
        /\ account = NoCand
        /\ \A c \in Emitted :
               /\ c.address \in seenAccounts
               /\ mutableDB.balance[c.address] = c.balance
               /\ mutableDB.storage[c.legacySlot] = 0
        /\ totalFound = SumLegacy({c.address : c \in Emitted})

\* The collector has stopped on the coordinator's signal after the workers
\* emitted candidates of two addresses.
CollectorStoppedAfterCandidates ==
    /\ sentErrs = {}
    /\ cpc \in {"closing", "done"}
    /\ Cardinality(Emitted) >= 2
    /\ totalFound >= 2

\* C14: an expected entry of kind Allowance is only skipped: whatever the
\* store holds, the worker processing it emits no candidate, raises no fatal
\* error and goes on to the next entry.
AllowanceOnlySkipped ==
    \A w \in Workers : \A i \in DOMAIN scanLog[w] :
        ( /\ scanLog[w][i].slot \in DOMAIN slotsInp
          /\ slotsInp[scanLog[w][i].slot] = AllowanceSlot )
        => scanLog[w][i].act = "continue"

\* C15: in relaxed mode an entry whose owning address already holds a balance
\* is skipped: no candidate is emitted for it, the address keeps its balance
\* and its legacy value is not added to the migrated total.
RelaxedPriorBalanceSkipped ==
    noCheck =>
        /\ \A c \in Emitted : root.balance[c.address] = 0
        /\ \A a \in Addr :
               root.balance[a] # 0 =>
                   /\ mutableDB.balance[a] = root.balance[a]
                   /\ a \notin seenAccounts
        /\ totalFound = SumLegacy({a \in seenAccounts : root.balance[a] = 0})

\* Entry s is an index entry of kind Balance whose owner holds a balance in the
\* committed state.
BalanceEntryWithPriorBalance(s) ==
    /\ s \in DOMAIN slotsInp
    /\ slotsInp[s] = BalanceSlot
    /\ root.balance[slotsAddrs[s]] # 0

\* C16: in strict mode a worker that finds a Balance entry whose owner holds a
\* non-zero balance sends exactly one integrity error (it is queued or has been
\* received), emits no candidate for the entry and processes no further entry.
StrictPriorBalanceStops ==
    ~noCheck =>
        \A w \in Workers : \A i \in DOMAIN scanLog[w] :
            BalanceEntryWithPriorBalance(scanLog[w][i].slot) =>
                /\ scanLog[w][i].act = "error"
                /\ scanLog[w][i].err = ErrNonZeroBalance(slotsAddrs[scanLog[w][i].slot])
                /\ scanLog[w][i].cand = NoCand
                /\ Cardinality({j \in DOMAIN scanLog[w] : scanLog[w][j].act = "error"}) = 1
                /\ \/ \E k \in DOMAIN errCh : errCh[k] = scanLog[w][i].err
                   \/ \E k \in DOMAIN recvErrs : recvErrs[k] = scanLog[w][i].err
                /\ \A c \in Emitted : c.legacySlot # scanLog[w][i].slot
                /\ i = Len(scanLog[w])
                /\ wpc[w] = "done"
                /\ pending[w] = NoCand

\* A strict worker has stopped at a Balance entry of an address with a prior
\* balance while a later entry of its partition was still unread.
StrictPriorBalanceFound ==
    /\ ~noCheck
    /\ \E w \in Workers :
          /\ scanLog[w] # << >>
          /\ wpc[w] = "done"
          /\ BalanceEntryWithPriorBalance(scanLog[w][Len(scanLog[w])].slot)
          /\ \E t \in TrieSlots \ ignoredSlots :
                /\ HashKey(t) > HashKey(scanLog[w][Len(scanLog[w])].slot)
                /\ HashKey(t) <= PartitionKeyspace(w, checkJobs).end

\* C17: a worker emits a candidate only for a non-empty, non-ignored entry
\* that the index lists with kind Balance, and the candidate carries the
\* entry's owner, its key and its stored value; whatever a worker is sending
\* or the collector is applying is such a candidate.
CandidateOnlyForBalanceEntries ==
    /\ \A w \in Workers : \A i \in DOMAIN scanLog[w] :
          /\ (scanLog[w][i].act = "emit") <=> (scanLog[w][i].cand # NoCand)
          /\ scanLog[w][i].cand # NoCand =>
                /\ root.storage[scanLog[w][i].slot] # 0
                /\ scanLog[w][i].slot \notin ignoredSlots
                /\ scanLog[w][i].slot \in DOMAIN slotsInp
                /\ slotsInp[scanLog[w][i].slot] = BalanceSlot
                /\ scanLog[w][i].cand =
                       [balance    |-> root.storage[scanLog[w][i].slot],
                        legacySlot |-> scanLog[w][i].slot,
                        address    |-> slotsAddrs[scanLog[w][i].slot]]
    /\ \A w \in Workers :
          /\ (wpc[w] = "send") <=> (pending[w] # NoCand)
          /\ pending[w] # NoCand => pending[w] \in Emitted
    /\ account # NoCand => account \in Emitted

\* The workers have run over an ignored entry and an allowance entry without
\* emitting, and have emitted a candidate for a balance entry.
CandidateEmittedAmongSkipped ==
    /\ Emitted # {}
    /\ \E w \in Workers : \E i \in DOMAIN scanLog[w] :
          scanLog[w][i].slot \in ignoredSlots /\ scanLog[w][i].act = "continue"
    /\ \E w \in Workers : \E i \in DOMAIN scanLog[w] :
          scanLog[w][i].slot.kind = "allow" /\ scanLog[w][i].act = "continue"

\* C18: the target store is written only by the collector's case body (the
\* balance and the legacy slot of the candidate it applies) and by the
\* coordinator's total-supply reset; a worker step never changes it.  The
\* workers read the committed state through their own handles: what they find
\* does not depend on what has been written to the target store so far.
TargetWrittenOnlyByCollectorAndCoordinator ==
    /\ [][ /\ mutableDB' # mutableDB =>
                \/ /\ cpc = "apply" /\ cpc' = "select"
                   /\ mutableDB' =
                          [balance |-> [mutableDB.balance EXCEPT
                                            ![account.address] = account.balance],
                           storage |-> [mutableDB.storage EXCEPT
                                            ![account.legacySlot] = 0]]
                \/ /\ mpc = "verify" /\ mpc' = "done"
                   /\ mutableDB' =
                          [mutableDB EXCEPT !.storage[getOVMETHTotalSupplySlot] = 0]
           /\ (scanLog' # scanLog \/ wg' < wg) => mutableDB' = mutableDB ]_vars
    /\ [](\A w \in Workers : \A i \in DOMAIN scanLog[w] :
              /\ scanLog[w][i].err.msg = "non-zero balance" =>
                     root.balance[scanLog[w][i].err.addr] # 0
              /\ ( /\ scanLog[w][i].slot \in DOMAIN slotsInp
                   /\ slotsInp[scanLog[w][i].slot] = BalanceSlot
                   /\ root.balance[slotsAddrs[scanLog[w][i].slot]] = 0 )
                 => /\ scanLog[w][i].act = "emit"
                    /\ scanLog[w][i].cand.balance = root.storage[scanLog[w][i].slot])

\* Collector and coordinator have both written the target store, and two
\* workers have read the entry of an address the collector migrated.
TargetWrittenWhileScanned ==
    /\ Returned /\ result = ErrNil
    /\ getOVMETHTotalSupply(root) # 0
    /\ \E a \in seenAccounts :
          \A w \in Workers : \E i \in DOMAIN scanLog[w] :
              scanLog[w][i].slot = CalcOVMETHStorageKey(a)

\* The workers whose loop body ran on entry s.
Examiners(s) ==
    {w \in Workers : \E i \in DOMAIN scanLog[w] : scanLog[w][i].slot = s}

\* C19: on a run without cancellation, once the workers have finished, every
\* non-empty legacy entry has been examined by one worker or by two, each of
\* them once and within its own range; by two only when they are adjacent and
\* the entry's store key is the boundary value their ranges share.
EachEntryExaminedOnceOrTwice ==
    ((\A w \in Workers : wpc[w] = "done") /\ sentErrs = {} /\ ~crashed) =>
        /\ \A s \in TrieSlots :
              /\ Cardinality(Examiners(s)) \in {1, 2}
              /\ Cardinality(Examiners(s)) = 2 =>
                     \E w \in Workers :
                         /\ Examiners(s) = {w, w + 1}
                         /\ HashKey(s) = PartitionKeyspace(w, checkJobs).end
                         /\ HashKey(s) = PartitionKeyspace(w + 1, checkJobs).start
        /\ \A w \in Workers : \A i \in DOMAIN scanLog[w] :
              /\ scanLog[w][i].slot \in TrieSlots
              /\ HashKey(scanLog[w][i].slot) >= PartitionKeyspace(w, checkJobs).start
              /\ HashKey(scanLog[w][i].slot) <= PartitionKeyspace(w, checkJobs).end
              /\ \A j \in DOMAIN scanLog[w] :
                     i # j => scanLog[w][i].slot # scanLog[w][j].slot

\* An uncancelled scan has finished in which one entry was examined by two
\* workers and another entry by one.
BoundaryEntryExaminedTwice ==
    /\ \A w \in Workers : wpc[w] = "done"
    /\ sentErrs = {} /\ ~crashed
    /\ \E s \in TrieSlots : Cardinality(Examiners(s)) = 2
    /\ \E s \in TrieSlots \ ignoredSlots : Cardinality(Examiners(s)) = 1

\* What the inputs alone determine for a run without a fatal error: the
\* addresses to migrate, the migrated total, the result and the final store.
MigratedAddrs ==
    {a \in addresses \cup {sequencerEntrypointAddr} : LegacyBalance(a) # 0}

ExpectedTotal == SumLegacy(MigratedAddrs)

ExpectedResult ==
    IF ~noCheck /\ getOVMETHTotalSupply(root) - ExpectedTotal # expDiff
    THEN ErrSupplyMismatch(getOVMETHTotalSupply(root) - ExpectedTotal)
    ELSE ErrNil

ExpectedStore ==
    [balance |-> [a \in Addr |->
                    IF a \in MigratedAddrs THEN LegacyBalance(a) ELSE root.balance[a]],
     storage |-> [s \in Slots |->
                    IF s.kind = "bal" /\ s.a \in MigratedAddrs THEN 0
                    ELSE IF s = getOVMETHTotalSupplySlot /\ ExpectedResult = ErrNil THEN 0
                    ELSE root.storage[s]]]

\* C20: for a fixed legacy store and fixed inputs on which no worker raises a
\* fatal error, every interleaving of workers and collector ends with the same
\* target store, the same migrated total and the same result: the ones the
\* inputs determine.
OrderIndependent ==
    (Returned /\ sentErrs = {}) =>
        /\ mutableDB = ExpectedStore
        /\ totalFound = ExpectedTotal
        /\ count = Cardinality(MigratedAddrs)
        /\ result = ExpectedResult

\* A run without a fatal error has returned in which every worker emitted a
\* candidate and two addresses were migrated.
InterleavedRunReturned ==
    /\ Returned /\ sentErrs = {}
    /\ Cardinality(seenAccounts) >= 2
    /\ \A w \in Workers : \E i \in DOMAIN scanLog[w] : scanLog[w][i].act = "emit"

\* C21: the coordinator's phases follow one another in order (scan and wait,
\* drain, verify, return).  It reads the retained error and the migrated total
\* and starts the conservation check only after every worker has exited and
\* the collector has signalled completion; from then on the collector writes
\* nothing and the values read do not change.  The total-supply reset is the
\* only write of the verification, nothing is written after it, and a run that
\* returns an error has not reset the record.
CoordinatorPhasesOrdered ==
    /\ [](/\ mpc \in {"cancel", "join", "verify", "done"} =>
                /\ wg = 0
                /\ \A w \in Workers : wpc[w] = "done" /\ pending[w] = NoCand
          /\ mpc \in {"verify", "done"} =>
                /\ cpc = "done"
                /\ account = NoCand
                /\ cancelCh.closed
          /\ Returned =>
                /\ lastErr # ErrNil => result = lastErr
                /\ result # ErrNil =>
                       getOVMETHTotalSupply(mutableDB) = getOVMETHTotalSupply(root))
    /\ [][ /\ mpc' # mpc =>
                <<mpc, mpc'>> \in {<<"init", "wait">>, <<"wait", "cancel">>,
                                   <<"cancel", "join">>, <<"join", "verify">>,
                                   <<"verify", "done">>}
           /\ mpc \in {"verify", "done"} =>
                /\ UNCHANGED <<lastErr, totalFound, count, seenAccounts, cpc>>
                /\ mutableDB' # mutableDB =>
                       /\ mpc = "verify" /\ mpc' = "done"
                       /\ result' = ErrNil
                       /\ mutableDB' =
                              [mutableDB EXCEPT !.storage[getOVMETHTotalSupplySlot] = 0]
           /\ mpc = "done" => mutableDB' = mutableDB ]_vars

\* The coordinator is about to verify after the collector, having applied a
\* candidate, signalled completion.
VerifyingAfterDrain ==
    /\ mpc = "verify"
    /\ cpc = "done"
    /\ count >= 1
    /\ recvErrs = << >>

\* The fatal errors worker w has sent, as positions of its scan log.
ErrorsSentBy(w) == {i \in DOMAIN scanLog[w] : scanLog[w][i].act = "error"}

\* C22: a worker never blocks when it reports a fatal error: each worker
\* sends at most one error and has returned after it, every error sent is
\* queued or has been received, and the queue never holds more errors than
\* its capacity, the number of workers, whether or not the collector still runs.
ErrorSendNeverBlocks ==
    /\ Len(errCh) <= checkJobs
    /\ \A w \in Workers :
          /\ Cardinality(ErrorsSentBy(w)) <= 1
          /\ ErrorsSentBy(w) # {} =>
                /\ ErrorsSentBy(w) = {Len(scanLog[w])}
                /\ wpc[w] = "done"
    /\ Len(errCh) + Len(recvErrs) = Cardinality({w \in Workers : ErrorsSentBy(w) # {}})

\* Every worker has sent an error and one is still queued after the collector
\* stopped.
ErrorQueuedAfterCollectorStopped ==
    /\ cpc \in {"closing", "done"}
    /\ Len(errCh) >= 1
    /\ \A w \in Workers : ErrorsSentBy(w) # {}

\* C23: a failed run is not rolled back: when doMigration returns an error,
\* every address the collector applied still holds its legacy balance with its
\* legacy slot cleared, the total-supply record has its original value, and
\* the rest of the target store is as it was before the run.
FailedRunNotRolledBack ==
    (Returned /\ result # ErrNil) =>
        /\ result = lastErr \/ result.msg = "supply mismatch"
        /\ mutableDB =
               [balance |-> [a \in Addr |->
                               IF a \in seenAccounts THEN LegacyBalance(a)
                               ELSE root.balance[a]],
                storage |-> [s \in Slots |->
                               IF s.kind = "bal" /\ s.a \in seenAccounts THEN 0
                               ELSE root.storage[s]]]
        /\ getOVMETHTotalSupply(mutableDB) = getOVMETHTotalSupply(root)

\* doMigration has returned a worker's error after the collector migrated an
\* address, with a non-zero total-supply record.
FailedAfterPartialMigration ==
    /\ Returned
    /\ result \in sentErrs
    /\ seenAccounts # {}
    /\ \E a \in seenAccounts : LegacyBalance(a) # 0 /\ mutableDB.balance[a] # root.balance[a]
    /\ getOVMETHTotalSupply(root) # 0

====
